---- MODULE Spec2Model ----
(***************************************************************************)
(* Model of the oEmbed decorator node (OEmbedNode.tsx), its render         *)
(* component (OEmbedComponent) and the insert-command plugin               *)
(* (OEmbedPlugin).                                                         *)
(*                                                                         *)
(* Nullable values (string | null, node | null, data | undefined) are      *)
(* modelled as sequences of length 0 or 1.                                 *)
(***************************************************************************)
EXTENDS Integers, Sequences, FiniteSets, TLC

\* ------------------------------------------------------------------ bounds
MaxKey == 4         \* node keys the host hands out in one behaviour
MaxDispatch == 3    \* command dispatches in one behaviour
MaxInst == 1        \* component instances in one behaviour
MaxFetch == 2       \* fetches issued in one behaviour

\* ------------------------------------------------------------ input values
UrlA == "https://a.example/x"
UrlB == "https://b.example/y"
UrlN == "https://nowhere.example/z"
NodeUrls == {"", UrlA, UrlN}
Formats == {"", "left", "center", "right", "justify"}
None == <<>>
Some(x) == <<x>>

VARIABLES
  \* --- node (de)serialisation
  nextKey,        \* next key the host document model assigns
  node,           \* the node under consideration (None | Some(node))
  json1,          \* node.exportJSON()
  node2,          \* OEmbedNode.importJSON(json1)
  json2,          \* node2.exportJSON()
  element,        \* a div element handed to the DOM importer
  elementOfNode,  \* TRUE iff element = node.exportDOM().element
  domDone,        \* the DOM import path has run on element
  domResult,      \* its result (None | Some(node))
  \* --- plugin / command bus
  hasNodes,       \* editor.hasNodes([OEmbedNode])
  pluginState,    \* per plugin instance: "unmounted" | "mounted" | "error"
  handlers,       \* plugin instances whose handler is registered
  insertCalls,    \* nodes passed to $insertBlockNode, in call order
  dispatchLog,    \* one record per dispatchCommand call
  \* --- renderEmbed as a function
  rUrl, rLoading, rData, rOut,
  \* --- component instances
  compStatus,     \* "unborn" | "mounted" | "unmounted"
  url,            \* the url prop
  isLoading,      \* useState(false)
  oembedData,     \* useState(undefined)
  effectPending,  \* the [url] effect is scheduled and has not run
  fetches         \* the async closures started by the effect

nodeVars == <<nextKey, node, json1, node2, json2, element, elementOfNode,
              domDone, domResult>>
pluginVars == <<hasNodes, pluginState, handlers, insertCalls, dispatchLog>>
renderVars == <<rUrl, rLoading, rData, rOut>>
compVars == <<compStatus, url, isLoading, oembedData, effectPending, fetches>>
vars == <<nodeVars, pluginVars, renderVars, compVars>>

\* ===================================================================
\* OEmbedNode
\* ===================================================================
DefaultFormat == ""

\* DecoratorBlockNode constructor: stores format and key.
DecoratorBlockNode(format, key) == [__format |-> format, __key |-> key]

\* DecoratorBlockNode.exportJSON: the base-class fields.
superExportJSON(n) ==
  [format |-> n.__format, type |-> "decorator-block", version |-> 1]

\* DecoratorBlockNode.setFormat
setFormat(n, format) == [n EXCEPT !.__format = format]

\* new OEmbedNode(url, format, key)
OEmbedNode(u, format, key) ==
  LET base == DecoratorBlockNode(format, key)
  IN [__url |-> u, __format |-> base.__format, __key |-> base.__key]

getUrl(n) == n.__url

createOEmbedNode(u, key) == OEmbedNode(u, DefaultFormat, key)

\* {...super.exportJSON(), type: 'oembed', url: this.getUrl(), version: 1}
exportJSON(n) ==
  LET base == superExportJSON(n)
  IN [k \in DOMAIN base \cup {"type", "url", "version"} |->
        IF k = "type" THEN "oembed"
        ELSE IF k = "url" THEN getUrl(n)
        ELSE IF k = "version" THEN 1
        ELSE base[k]]

importJSON_noFormat(serializedNode, key) ==
  createOEmbedNode(serializedNode.url, key)

importJSON(serializedNode, key) ==
  setFormat(createOEmbedNode(serializedNode.url, key), serializedNode.format)

\* --- DOM elements: a tag and an attribute map
MarkerAttr == "data-lexical-oembed-url"
createElement(tag) == [tag |-> tag, attrs |-> <<>>]
setAttribute(el, a, v) ==
  [el EXCEPT !.attrs = [x \in DOMAIN el.attrs \cup {a} |->
                          IF x = a THEN v ELSE el.attrs[x]]]
hasAttribute(el, a) == a \in DOMAIN el.attrs
getAttribute(el, a) == IF a \in DOMAIN el.attrs THEN Some(el.attrs[a]) ELSE None

\* JavaScript truthiness of a string | null
Truthy(s) == s # None /\ s[1] # ""

exportDOM(n) == setAttribute(createElement("div"), MarkerAttr, n.__url)

convertOEmbedElement(domNode, key) ==
  LET u == getAttribute(domNode, MarkerAttr)
  IN IF Truthy(u) THEN Some([node |-> createOEmbedNode(u[1], key)]) ELSE None

\* importDOM().div(domNode): the conversion to use, or null
importDOMdiv(domNode) ==
  IF ~hasAttribute(domNode, MarkerAttr) THEN None
  ELSE Some([conversion |-> "convertOEmbedElement", priority |-> 2])

\* The host importer: look up the handler for the tag, run its conversion.
importFromMarkup(domNode, key) ==
  IF domNode.tag # "div" \/ importDOMdiv(domNode) = None THEN None
  ELSE convertOEmbedElement(domNode, key)

ForeignElements ==
  {createElement("div"), createElement("p"),
   setAttribute(createElement("p"), MarkerAttr, UrlA)}
  \cup {setAttribute(createElement("div"), MarkerAttr, u) : u \in NodeUrls}

Create(u) ==
  /\ nextKey <= MaxKey
  /\ node' = Some(createOEmbedNode(u, nextKey))
  /\ nextKey' = nextKey + 1
  /\ json1' = None /\ node2' = None /\ json2' = None
  /\ element' = None /\ elementOfNode' = FALSE
  /\ domDone' = FALSE /\ domResult' = None
  /\ UNCHANGED <<pluginVars, renderVars, compVars>>

SetFormat(f) ==
  /\ node # None
  /\ node[1].__format # f
  /\ node' = Some(setFormat(node[1], f))
  /\ json1' = None /\ node2' = None /\ json2' = None
  /\ UNCHANGED <<nextKey, element, elementOfNode, domDone, domResult>>
  /\ UNCHANGED <<pluginVars, renderVars, compVars>>

ExportJSON ==
  /\ node # None
  /\ json1 = None
  /\ json1' = Some(exportJSON(node[1]))
  /\ UNCHANGED <<nextKey, node, node2, json2, element, elementOfNode,
                 domDone, domResult>>
  /\ UNCHANGED <<pluginVars, renderVars, compVars>>

ImportJSON ==
  /\ json1 # None
  /\ node2 = None
  /\ nextKey <= MaxKey
  /\ node2' = Some(importJSON(json1[1], nextKey))
  /\ nextKey' = nextKey + 1
  /\ UNCHANGED <<node, json1, json2, element, elementOfNode, domDone,
                 domResult>>
  /\ UNCHANGED <<pluginVars, renderVars, compVars>>

ReExportJSON ==
  /\ node2 # None
  /\ json2 = None
  /\ json2' = Some(exportJSON(node2[1]))
  /\ UNCHANGED <<nextKey, node, json1, node2, element, elementOfNode,
                 domDone, domResult>>
  /\ UNCHANGED <<pluginVars, renderVars, compVars>>

ExportDOM ==
  /\ node # None
  /\ ~elementOfNode
  /\ element' = Some(exportDOM(node[1]))
  /\ elementOfNode' = TRUE
  /\ domDone' = FALSE /\ domResult' = None
  /\ UNCHANGED <<nextKey, node, json1, node2, json2>>
  /\ UNCHANGED <<pluginVars, renderVars, compVars>>

ForeignDOM(el) ==
  /\ element # Some(el) \/ elementOfNode
  /\ element' = Some(el)
  /\ elementOfNode' = FALSE
  /\ domDone' = FALSE /\ domResult' = None
  /\ UNCHANGED <<nextKey, node, json1, node2, json2>>
  /\ UNCHANGED <<pluginVars, renderVars, compVars>>

ImportDOM ==
  /\ element # None
  /\ ~domDone
  /\ nextKey <= MaxKey
  /\ LET r == importFromMarkup(element[1], nextKey)
     IN /\ domResult' = r
        /\ nextKey' = IF r = None THEN nextKey ELSE nextKey + 1
  /\ domDone' = TRUE
  /\ UNCHANGED <<node, json1, node2, json2, element, elementOfNode>>
  /\ UNCHANGED <<pluginVars, renderVars, compVars>>

\* ===================================================================
\* OEmbedPlugin and INSERT_OEMBED_COMMAND
\* ===================================================================
Plugins == {1, 2}
CommandUrls == {"", UrlA, UrlB}

\* A handler that reports the command handled without inserting anything.
OEmbedHandler_noInsert(payload, calls, key) ==
  [calls |-> calls, ret |-> TRUE]

\* The command listener: (payload) => { $insertBlockNode($createOEmbedNode(payload)); return true }
OEmbedHandler(payload, calls, key) ==
  LET oembedNode == createOEmbedNode(payload, key)
  IN [calls |-> Append(calls, oembedNode), ret |-> TRUE]

\* An effect that registers the listener without looking at hasNodes.
PluginEffect_noCheck(has, hs, p) ==
  [threw |-> FALSE, handlers |-> hs \cup {p}]

\* The useEffect body: throw unless the node type is registered, else
\* registerCommand.
PluginEffect(has, hs, p) ==
  IF ~has THEN [threw |-> TRUE, handlers |-> hs]
  ELSE [threw |-> FALSE, handlers |-> hs \cup {p}]

\* The function registerCommand returned, run as the effect's cleanup.
PluginCleanup(hs, p) == hs \ {p}

\* editor.dispatchCommand: listeners are tried until one returns true.
dispatchCommand(payload, hs, calls, key) ==
  IF hs = {} THEN [calls |-> calls, handled |-> FALSE]
  ELSE LET r == OEmbedHandler(payload, calls, key)
       IN [calls |-> r.calls, handled |-> r.ret]

\* The plugin is mounted and its effect runs on an editor with the node type.
PluginMount(p) ==
  /\ pluginState[p] = "unmounted"
  /\ LET r == PluginEffect(hasNodes, handlers, p)
     IN /\ ~r.threw
        /\ handlers' = r.handlers
        /\ pluginState' = [pluginState EXCEPT ![p] = "mounted"]
  /\ UNCHANGED <<hasNodes, insertCalls, dispatchLog>>
  /\ UNCHANGED <<nodeVars, renderVars, compVars>>

\* The plugin is mounted and its effect throws the setup error.
PluginSetupError(p) ==
  /\ pluginState[p] = "unmounted"
  /\ LET r == PluginEffect(hasNodes, handlers, p)
     IN /\ r.threw
        /\ handlers' = r.handlers
        /\ pluginState' = [pluginState EXCEPT ![p] = "error"]
  /\ UNCHANGED <<hasNodes, insertCalls, dispatchLog>>
  /\ UNCHANGED <<nodeVars, renderVars, compVars>>

\* The owning view is torn down: the effect's cleanup runs.
PluginUnmount(p) ==
  /\ pluginState[p] = "mounted"
  /\ handlers' = PluginCleanup(handlers, p)
  /\ pluginState' = [pluginState EXCEPT ![p] = "unmounted"]
  /\ UNCHANGED <<hasNodes, insertCalls, dispatchLog>>
  /\ UNCHANGED <<nodeVars, renderVars, compVars>>

Dispatch(u) ==
  /\ Len(dispatchLog) < MaxDispatch
  /\ LET r == dispatchCommand(u, handlers, insertCalls, Len(insertCalls) + 1)
     IN /\ insertCalls' = r.calls
        /\ dispatchLog' = Append(dispatchLog,
             [url |-> u, registered |-> handlers # {}, hasNodes |-> hasNodes,
              handled |-> r.handled, inserted |-> Len(r.calls) - Len(insertCalls)])
  /\ UNCHANGED <<hasNodes, pluginState, handlers>>
  /\ UNCHANGED <<nodeVars, renderVars, compVars>>

\* ===================================================================
\* renderEmbed and the four render helpers
\* ===================================================================
LoadingText == "Loading..."
loadingComponent == [el |-> "text", text |-> LoadingText]

renderPhoto(data) ==
  [el |-> "img", src |-> data.url, width |-> data.width, height |-> data.height]

\* returns the detached DOM div whose innerHTML was set to data.html
renderVideo(data) == [el |-> "HTMLDivElement", innerHTML |-> data.html]

renderLink_payloadUrl(data, u) ==
  [el |-> "a", href |-> data.url, children |-> data.title]

renderLink(data, u) == [el |-> "a", href |-> u, children |-> data.title]

renderRich(data) == [el |-> "div", dangerouslySetInnerHTML |-> data.html]

\* oembedData.type; None when the parsed JSON carries no type field
typeOf(data) == IF "type" \in DOMAIN data THEN Some(data.type) ELSE None

renderEmbed(u, loading, data) ==
  IF u = "" \/ loading \/ data = None THEN loadingComponent
  ELSE LET d == data[1]
           t == typeOf(d)
       IN IF t = Some("photo") THEN renderPhoto(d)
          ELSE IF t = Some("video") THEN renderVideo(d)
          ELSE IF t = Some("link") THEN renderLink(d, u)
          ELSE IF t = Some("rich") THEN renderRich(d)
          ELSE loadingComponent

\* Parsed JSON bodies: the four oEmbed shapes, an unknown type, no type.
PayloadFields ==
  [url : {"https://img.example/1.png", UrlA}, width : {1, 640},
   height : {2, 480}, title : {"T1", "T2"}, html : {"<b>x</b>", "<i>y</i>"}]
withType(f, t) ==
  [k \in DOMAIN f \cup {"type"} |-> IF k = "type" THEN t ELSE f[k]]
Payloads ==
  PayloadFields
  \cup {withType(f, t) : f \in PayloadFields,
                          t \in {"photo", "video", "link", "rich", "audio"}}

Render ==
  /\ rOut = None
  /\ rOut' = Some(renderEmbed(rUrl, rLoading, rData))
  /\ UNCHANGED <<rUrl, rLoading, rData>>
  /\ UNCHANGED <<nodeVars, pluginVars, compVars>>

\* ===================================================================
\* OEmbedComponent: state, the [url] effect and its async closure
\* ===================================================================
Insts == 1..MaxInst
CompUrls == {"", UrlA, UrlB, UrlN}

\* oembed-parser's findProvider: a provider record, or null
findProvider(u) ==
  IF u \in {UrlA, UrlB}
  THEN Some([fetchEndpoint |-> "https://provider.example/oembed"])
  ELSE None

\* The JSON body the provider serves for a url.
Response(u) ==
  IF u = UrlA
  THEN [type |-> "photo", url |-> "https://img.example/1.png", width |-> 640,
        height |-> 480, title |-> "T1", html |-> ""]
  ELSE IF u = UrlB
  THEN [type |-> "link", url |-> "", width |-> 0, height |-> 0,
        title |-> "T2", html |-> ""]
  ELSE [type |-> "rich", url |-> "", width |-> 0, height |-> 0,
        title |-> "", html |-> "<b>x</b>"]

\* A state setter that also writes the state of an unmounted instance.
useStateSet_always(status, old, new) == new

\* A useState setter: React drops updates of an unmounted component.
useStateSet(status, old, new) == IF status = "mounted" THEN new ELSE old

rendered(i) == renderEmbed(url[i], isLoading[i], oembedData[i])

\* First render of an instance: useState initial values, effect scheduled.
Mount(i, u) ==
  /\ compStatus[i] = "unborn"
  /\ IF i = 1 THEN TRUE ELSE compStatus[i - 1] # "unborn"
  /\ compStatus' = [compStatus EXCEPT ![i] = "mounted"]
  /\ url' = [url EXCEPT ![i] = u]
  /\ isLoading' = [isLoading EXCEPT ![i] = FALSE]
  /\ oembedData' = [oembedData EXCEPT ![i] = None]
  /\ effectPending' = [effectPending EXCEPT ![i] = TRUE]
  /\ UNCHANGED fetches
  /\ UNCHANGED <<nodeVars, pluginVars, renderVars>>

\* Re-render with a different url prop: the [url] dependency changed.
SetUrl(i, u) ==
  /\ compStatus[i] = "mounted"
  /\ ~effectPending[i]
  /\ u # url[i]
  /\ url' = [url EXCEPT ![i] = u]
  /\ effectPending' = [effectPending EXCEPT ![i] = TRUE]
  /\ UNCHANGED <<compStatus, isLoading, oembedData, fetches>>
  /\ UNCHANGED <<nodeVars, pluginVars, renderVars>>

\* The effect body up to its first await.
RunEffect(i) ==
  /\ compStatus[i] = "mounted"
  /\ effectPending[i]
  /\ effectPending' = [effectPending EXCEPT ![i] = FALSE]
  /\ IF url[i] = ""
     THEN UNCHANGED <<isLoading, fetches>>
     ELSE /\ isLoading' = [isLoading EXCEPT ![i] =
                             useStateSet(compStatus[i], isLoading[i], TRUE)]
          /\ IF findProvider(url[i]) = None
             THEN UNCHANGED fetches
             ELSE /\ Len(fetches) < MaxFetch
                  /\ fetches' = Append(fetches,
                       [inst |-> i, url |-> url[i], phase |-> "fetching",
                        caught |-> "none"])
  /\ UNCHANGED <<compStatus, url, oembedData>>
  /\ UNCHANGED <<nodeVars, pluginVars, renderVars>>

Unmount(i) ==
  /\ compStatus[i] = "mounted"
  /\ ~effectPending[i]
  /\ compStatus' = [compStatus EXCEPT ![i] = "unmounted"]
  /\ UNCHANGED <<url, isLoading, oembedData, effectPending, fetches>>
  /\ UNCHANGED <<nodeVars, pluginVars, renderVars>>

\* await fetch(...) resolves with a response
FetchResponds(k) ==
  /\ k \in DOMAIN fetches
  /\ fetches[k].phase = "fetching"
  /\ fetches' = [fetches EXCEPT ![k].phase = "parsing"]
  /\ UNCHANGED <<compStatus, url, isLoading, oembedData, effectPending>>
  /\ UNCHANGED <<nodeVars, pluginVars, renderVars>>

\* await fetch(...) rejects: caught by the catch block
FetchNetworkError(k) ==
  /\ k \in DOMAIN fetches
  /\ fetches[k].phase = "fetching"
  /\ fetches' = [fetches EXCEPT ![k].phase = "failed", ![k].caught = "network"]
  /\ UNCHANGED <<compStatus, url, isLoading, oembedData, effectPending>>
  /\ UNCHANGED <<nodeVars, pluginVars, renderVars>>

\* await res.json() rejects: caught by the catch block
JsonParseError(k) ==
  /\ k \in DOMAIN fetches
  /\ fetches[k].phase = "parsing"
  /\ fetches' = [fetches EXCEPT ![k].phase = "failed", ![k].caught = "parse"]
  /\ UNCHANGED <<compStatus, url, isLoading, oembedData, effectPending>>
  /\ UNCHANGED <<nodeVars, pluginVars, renderVars>>

\* await res.json() resolves; setIsLoading(false) is rendered on its own
JsonParsed(k) ==
  /\ k \in DOMAIN fetches
  /\ fetches[k].phase = "parsing"
  /\ LET i == fetches[k].inst
     IN isLoading' = [isLoading EXCEPT ![i] =
                        useStateSet(compStatus[i], isLoading[i], FALSE)]
  /\ fetches' = [fetches EXCEPT ![k].phase = "loaded"]
  /\ UNCHANGED <<compStatus, url, oembedData, effectPending>>
  /\ UNCHANGED <<nodeVars, pluginVars, renderVars>>

\* setOEmbedData(data) after the render caused by setIsLoading(false)
StoreData(k) ==
  /\ k \in DOMAIN fetches
  /\ fetches[k].phase = "loaded"
  /\ LET i == fetches[k].inst
     IN /\ oembedData' = [oembedData EXCEPT ![i] =
             useStateSet(compStatus[i], oembedData[i], Some(Response(fetches[k].url)))]
        /\ fetches' = [fetches EXCEPT ![k].phase = "done"]
  /\ UNCHANGED <<compStatus, url, isLoading, effectPending>>
  /\ UNCHANGED <<nodeVars, pluginVars, renderVars>>

\* await res.json() resolves and React batches the two state writes
JsonParsedBatched(k) ==
  /\ k \in DOMAIN fetches
  /\ fetches[k].phase = "parsing"
  /\ LET i == fetches[k].inst
     IN /\ isLoading' = [isLoading EXCEPT ![i] =
             useStateSet(compStatus[i], isLoading[i], FALSE)]
        /\ oembedData' = [oembedData EXCEPT ![i] =
             useStateSet(compStatus[i], oembedData[i], Some(Response(fetches[k].url)))]
        /\ fetches' = [fetches EXCEPT ![k].phase = "done"]
  /\ UNCHANGED <<compStatus, url, effectPending>>
  /\ UNCHANGED <<nodeVars, pluginVars, renderVars>>

\* ===================================================================
\* Specifications
\* ===================================================================
NextNode ==
  \/ \E u \in NodeUrls : Create(u)
  \/ \E f \in Formats : SetFormat(f)
  \/ ExportJSON
  \/ ImportJSON
  \/ ReExportJSON
  \/ ExportDOM
  \/ \E el \in ForeignElements : ForeignDOM(el)
  \/ ImportDOM

\* No node yet; the plugin, renderer and component parts are idle.
InitNode ==
  /\ nextKey = 1
  /\ node = None
  /\ json1 = None
  /\ node2 = None
  /\ json2 = None
  /\ element = None
  /\ elementOfNode = FALSE
  /\ domDone = FALSE
  /\ domResult = None
  /\ hasNodes = TRUE
  /\ pluginState = [p \in Plugins |-> "unmounted"]
  /\ handlers = {}
  /\ insertCalls = <<>>
  /\ dispatchLog = <<>>
  /\ rUrl = ""
  /\ rLoading = FALSE
  /\ rData = None
  /\ rOut = None
  /\ compStatus = [i \in Insts |-> "unborn"]
  /\ url = [i \in Insts |-> ""]
  /\ isLoading = [i \in Insts |-> FALSE]
  /\ oembedData = [i \in Insts |-> None]
  /\ effectPending = [i \in Insts |-> FALSE]
  /\ fetches = <<>>

SpecNode ==
  /\ InitNode
  /\ [][NextNode]_vars

NextPlugin ==
  \/ \E p \in Plugins : PluginMount(p)
  \/ \E p \in Plugins : PluginSetupError(p)
  \/ \E p \in Plugins : PluginUnmount(p)
  \/ \E u \in CommandUrls : Dispatch(u)

\* An editor created with or without OEmbedNode in its node list; no plugin mounted.
InitPlugin ==
  /\ nextKey = 1
  /\ node = None
  /\ json1 = None
  /\ node2 = None
  /\ json2 = None
  /\ element = None
  /\ elementOfNode = FALSE
  /\ domDone = FALSE
  /\ domResult = None
  /\ hasNodes \in BOOLEAN
  /\ pluginState = [p \in Plugins |-> "unmounted"]
  /\ handlers = {}
  /\ insertCalls = <<>>
  /\ dispatchLog = <<>>
  /\ rUrl = ""
  /\ rLoading = FALSE
  /\ rData = None
  /\ rOut = None
  /\ compStatus = [i \in Insts |-> "unborn"]
  /\ url = [i \in Insts |-> ""]
  /\ isLoading = [i \in Insts |-> FALSE]
  /\ oembedData = [i \in Insts |-> None]
  /\ effectPending = [i \in Insts |-> FALSE]
  /\ fetches = <<>>

SpecPlugin ==
  /\ InitPlugin
  /\ [][NextPlugin]_vars

NextRender == Render

\* renderEmbed's inputs drawn from the bounded sets; nothing rendered yet.
InitRender ==
  /\ nextKey = 1
  /\ node = None
  /\ json1 = None
  /\ node2 = None
  /\ json2 = None
  /\ element = None
  /\ elementOfNode = FALSE
  /\ domDone = FALSE
  /\ domResult = None
  /\ hasNodes = TRUE
  /\ pluginState = [p \in Plugins |-> "unmounted"]
  /\ handlers = {}
  /\ insertCalls = <<>>
  /\ dispatchLog = <<>>
  /\ rUrl \in {"", UrlA, UrlB}
  /\ rLoading \in BOOLEAN
  /\ rData \in {None} \cup {Some(d) : d \in Payloads}
  /\ rOut = None
  /\ compStatus = [i \in Insts |-> "unborn"]
  /\ url = [i \in Insts |-> ""]
  /\ isLoading = [i \in Insts |-> FALSE]
  /\ oembedData = [i \in Insts |-> None]
  /\ effectPending = [i \in Insts |-> FALSE]
  /\ fetches = <<>>

SpecRender ==
  /\ InitRender
  /\ [][NextRender]_vars

NextComp ==
  \/ \E i \in Insts, u \in CompUrls : Mount(i, u)
  \/ \E i \in Insts, u \in CompUrls : SetUrl(i, u)
  \/ \E i \in Insts : RunEffect(i)
  \/ \E i \in Insts : Unmount(i)
  \/ \E k \in 1..MaxFetch : FetchResponds(k)
  \/ \E k \in 1..MaxFetch : FetchNetworkError(k)
  \/ \E k \in 1..MaxFetch : JsonParseError(k)
  \/ \E k \in 1..MaxFetch : JsonParsed(k)
  \/ \E k \in 1..MaxFetch : StoreData(k)
  \/ \E k \in 1..MaxFetch : JsonParsedBatched(k)

\* No component instance rendered yet.
InitComp ==
  /\ nextKey = 1
  /\ node = None
  /\ json1 = None
  /\ node2 = None
  /\ json2 = None
  /\ element = None
  /\ elementOfNode = FALSE
  /\ domDone = FALSE
  /\ domResult = None
  /\ hasNodes = TRUE
  /\ pluginState = [p \in Plugins |-> "unmounted"]
  /\ handlers = {}
  /\ insertCalls = <<>>
  /\ dispatchLog = <<>>
  /\ rUrl = ""
  /\ rLoading = FALSE
  /\ rData = None
  /\ rOut = None
  /\ compStatus = [i \in Insts |-> "unborn"]
  /\ url = [i \in Insts |-> ""]
  /\ isLoading = [i \in Insts |-> FALSE]
  /\ oembedData = [i \in Insts |-> None]
  /\ effectPending = [i \in Insts |-> FALSE]
  /\ fetches = <<>>

SpecComp ==
  /\ InitComp
  /\ [][NextComp]_vars

\* ===================================================================
\* Properties
\* ===================================================================

\* C1: exporting a node, importing the result and exporting again gives the
\* same serialized form (type "oembed", version 1, the node's url and
\* format); only the key of the imported node differs.
RoundTripJSON ==
  json2 # None =>
    /\ json2 = json1
    /\ json1[1].type = "oembed"
    /\ json1[1].version = 1
    /\ json1[1].url = getUrl(node[1])
    /\ json1[1].format = node[1].__format

RoundTripJSONWitness ==
  /\ json2 # None
  /\ json2[1].format = "center"
  /\ json2[1].url = UrlA
  /\ node2[1].__key # node[1].__key

\* C2: importing the element produced by n.exportDOM() yields a node with
\* n's url, never null, for every url including the empty string.
RoundTripDOM ==
  (elementOfNode /\ domDone) =>
    /\ domResult # None
    /\ getUrl(domResult[1].node) = getUrl(node[1])

\* C3: every dispatch made while a handler is registered is handled and
\* inserts exactly one node with the dispatched url, so the inserted nodes
\* are the urls of those dispatches in dispatch order.
IsRegistered(e) == e.registered

InsertPerDispatch ==
  LET reg == SelectSeq(dispatchLog, IsRegistered)
  IN /\ \A j \in DOMAIN dispatchLog :
          dispatchLog[j].registered =>
            dispatchLog[j].handled /\ dispatchLog[j].inserted = 1
     /\ Len(insertCalls) = Len(reg)
     /\ \A j \in DOMAIN insertCalls : getUrl(insertCalls[j]) = reg[j].url

InsertPerDispatchWitness ==
  /\ Len(dispatchLog) = 3
  /\ ~dispatchLog[2].registered
  /\ Len(insertCalls) = 2
  /\ getUrl(insertCalls[1]) = UrlB
  /\ getUrl(insertCalls[2]) = UrlA

\* C4: on an editor without the node type no handler is ever registered and
\* no dispatch is handled; a handler is registered only while its plugin
\* is mounted.
NoHandlerWithoutNodeType ==
  /\ ~hasNodes =>
       /\ handlers = {}
       /\ insertCalls = <<>>
       /\ \A j \in DOMAIN dispatchLog : ~dispatchLog[j].handled
  /\ \A p \in handlers : pluginState[p] = "mounted"

NoHandlerWithoutNodeTypeWitness ==
  /\ ~hasNodes
  /\ \E p \in Plugins : pluginState[p] = "error"
  /\ Len(dispatchLog) > 0

\* C5: with a non-empty url, not loading and a payload, the output of
\* renderEmbed is fixed by the payload's type: photo -> img with the
\* payload's url, width and height; link -> anchor to the node's url
\* labelled with the payload's title; video and rich -> the payload's
\* markup; anything else -> the loading placeholder.
RenderByType ==
  (rOut # None /\ rUrl # "" /\ ~rLoading /\ rData # None) =>
    LET d == rData[1]
        o == rOut[1]
        t == typeOf(d)
    IN /\ t = Some("photo") =>
            o = [el |-> "img", src |-> d.url, width |-> d.width,
                 height |-> d.height]
       /\ t = Some("link") =>
            o = [el |-> "a", href |-> rUrl, children |-> d.title]
       /\ t = Some("video") => o.el = "HTMLDivElement" /\ o.innerHTML = d.html
       /\ t = Some("rich") =>
            o.el = "div" /\ o.dangerouslySetInnerHTML = d.html
       /\ t \notin {Some("photo"), Some("link"), Some("video"), Some("rich")}
            => o = loadingComponent
       /\ o.el \in {"img", "a", "HTMLDivElement", "div", "text"}

RenderByTypeWitness ==
  /\ rOut = Some([el |-> "a", href |-> UrlB, children |-> "T2"])
  /\ ~rLoading
  /\ rData # None
  /\ typeOf(rData[1]) = Some("link")
  /\ rData[1].url = UrlA

\* The fetch the last run of instance i's effect issued for its current
\* url, as a set of indices (empty when there is none).
currentFetch(i) ==
  LET ks == {k \in DOMAIN fetches : fetches[k].inst = i}
  IN IF ks = {} \/ effectPending[i] THEN {}
     ELSE LET last == CHOOSE k \in ks : \A m \in ks : m <= k
          IN IF fetches[last].url = url[i] THEN {last} ELSE {}

\* C6: for a url without a provider no fetch is issued, and once the effect
\* has run for it the component shows the loading placeholder for as long
\* as that url is current.
NoProviderStaysLoading ==
  /\ \A k \in DOMAIN fetches : findProvider(fetches[k].url) # None
  /\ \A i \in Insts :
       (/\ compStatus[i] = "mounted"
        /\ ~effectPending[i]
        /\ url[i] # ""
        /\ findProvider(url[i]) = None)
       => rendered(i) = loadingComponent

\* C7: when the fetch for the current url has failed, the component shows
\* the loading placeholder for as long as that url is current.
FailedFetchStaysLoading ==
  \A i \in Insts :
    (/\ compStatus[i] = "mounted"
     /\ \E k \in currentFetch(i) : fetches[k].phase = "failed")
    => rendered(i) = loadingComponent

LoadingWhileOutstanding ==
  \A i \in Insts :
    (/\ compStatus[i] = "mounted"
     /\ \E k \in currentFetch(i) : fetches[k].phase \in {"fetching", "parsing"})
    => rendered(i) = loadingComponent

\* C10: whenever a mounted component whose effect has run shows anything
\* but the loading placeholder, the payload shown is the response for its
\* current url.
RenderedIsCurrent ==
  \A i \in Insts :
    (/\ compStatus[i] = "mounted"
     /\ ~effectPending[i]
     /\ rendered(i) # loadingComponent)
    => oembedData[i] = Some(Response(url[i]))

====
